---- MODULE Spec2Model ----
(***************************************************************************)
(* gofetch-audio: the download orchestration core.                         *)
(*                                                                         *)
(*   downloader.Download   one goroutine per launched worker, plus its two *)
(*                         stream-reader goroutines (stdout, stderr)       *)
(*   tui.Model             the Bubble Tea model: Init / startDownloads /   *)
(*                         waitForProgress / Update / handleProgress       *)
(*                                                                         *)
(* All goroutines communicate over the buffered channel progressCh.        *)
(*                                                                         *)
(* Granularity.  Every channel send is a step of its own.  Statements that *)
(* touch nothing another goroutine can see are part of the step that       *)
(* follows them:                                                           *)
(*   - a line is read by a reader in the step in which the task writes it; *)
(*   - cmd.Wait returns and the terminal message is sent in one step,      *)
(*     after the step in which the task exits;                             *)
(*   - a reader whose task has exited and that holds no line is at         *)
(*     end-of-stream (its Scan can only return false);                     *)
(*   - the receive of waitForProgress and the Update call that handles the *)
(*     received message are one step.                                      *)
(* The closure of startDownloads runs as a Bubble Tea command, in its own  *)
(* goroutine: each iteration of its loop is a step.                        *)
(* When handleProgress returns tea.Quit (end of run) no waitForProgress is  *)
(* outstanding and Update sees no further progress message: the return of  *)
(* p.Run is part of that step.  After a key press the waitForProgress      *)
(* command is still outstanding: the return of p.Run is a step of its own  *)
(* (RunReturns).  No goroutine takes a step after p.Run has returned.      *)
(***************************************************************************)
EXTENDS Integers, Sequences, FiniteSets, TLC

(* ------------------------------ bounds --------------------------------- *)
\* largest size of a run: its number of URLs, plus twice its -parallel limit,
\* plus twice the number of output lines its external tasks write in total
MaxSize == 7

(* ------------------------- program constants --------------------------- *)
\* make(chan downloader.ProgressMsg, 100)
ChanCap == 100

StatusPending == "Pending"
StatusDownloading == "Downloading"
StatusConverting == "Converting"
StatusCompleted == "Completed"
StatusFailed == "Failed"

Status == {StatusPending, StatusDownloading, StatusConverting, StatusCompleted, StatusFailed}

\* the nil error, and the errors Download reports
NilError == "nil"
\* the err that cmd.StdoutPipe, cmd.StderrPipe or cmd.Start returns
ErrSetup == "setup"
ErrDownloadFailed == "download failed"

\* the empty Go string
EmptyString == << >>

\* ProgressMsg{ID, Status, Progress, Title, Error}; omitted fields are zero values
ProgressMsg(id, status, progress, title, error) ==
    [ID |-> id, Status |-> status, Progress |-> progress, Title |-> title, Error |-> error]

(* ------------------------- lines of the task --------------------------- *)
\* A line of yt-dlp output, by what the three regular expressions find in it:
\* dest is matches[1] of destRe (EmptyString: no match), pct is the number
\* downloadRe captures (-1: no match), extract is extractRe.MatchString.
Line(dest, pct, extract) == [dest |-> dest, pct |-> pct, extract |-> extract]

\* "[download] Destination: /out/a_b.webm"
DestLine == Line(<<"a", "_", "b">>, -1, FALSE)
\* "[download]  10% of ..."
DownloadLine == Line(EmptyString, 10, FALSE)
\* "[ExtractAudio] Destination: /out/a_b.mp3": destRe and extractRe both match
ExtractLine == Line(<<"a", "_", "b">>, -1, TRUE)
\* a blank line or unrelated log text
OtherLine == Line(EmptyString, -1, FALSE)

Lines == {DestLine, DownloadLine, ExtractLine, OtherLine}

\* strings.ReplaceAll(s, "_", " ")
ReplaceAll(s) == [k \in 1..Len(s) |-> IF s[k] = "_" THEN " " ELSE s[k]]

(* ------------------------------ state ---------------------------------- *)
VARIABLES
    items,          \* Model.items: 0..N-1 -> Item (the slice's shared backing array)
    parallel,       \* Model.parallel
    activeCount,    \* Model.activeCount of the model Update receives and returns
    completed,      \* Model.completed
    failed,         \* Model.failed
    quitting,       \* Model.quitting
    done,           \* Model.done
    exited,         \* the Bubble Tea program has left its loop (p.Run has returned)
    initActive,     \* activeCount of the copy of Model that Init's receiver holds
    sd,             \* the startDownloads closure: loop index, started, pc
    progressCh,     \* the buffered channel
    waiting,        \* a waitForProgress command is outstanding
    workers,        \* the Download goroutines launched so far, in launch order
    nlines          \* the number of lines the external tasks have written so far

vars == <<items, parallel, activeCount, completed, failed, quitting, done, exited,
          initActive, sd, progressCh, waiting, workers, nlines>>

NumItems == Cardinality(DOMAIN items)

\* the external tasks of the run may write one more line
MoreLines == NumItems + 2 * parallel + 2 * (nlines + 1) <= MaxSize

\* Item{URL: url, Status: downloader.StatusPending}
Item == [Status |-> StatusPending, Progress |-> 0, Title |-> EmptyString, Error |-> NilError]

\* the state of one stream-reader goroutine: pc is "idle" (not started), "scan"
\* (in scanner.Scan) or "dest" / "download" / "extract" (at the send of that if
\* statement, for the line it holds)
Reader(pc, line) == [pc |-> pc, line |-> line]

\* go downloader.Download(i, ...): a fresh goroutine at the first statement.
\* `by` records the go statement that launched it: "start" (startDownloads)
\* or "next" (handleProgress)
NewWorker(i, by) ==
    [id |-> i, by |-> by, pc |-> "start", proc |-> "none", title |-> EmptyString, tw |-> {},
     stdout |-> Reader("idle", OtherLine), stderr |-> Reader("idle", OtherLine),
     first |-> "none", nterm |-> 0]

\* NewModel(urls, config, parallel) followed by the start of the Bubble Tea
\* program: main requires at least one URL, and the limit is taken >= 1
Init ==
    /\ \E n \in 1..(MaxSize - 2) :
          /\ items = [i \in 0..(n - 1) |-> Item]
          /\ parallel \in 1..((MaxSize - n) \div 2)
    /\ activeCount = 0
    /\ completed = 0
    /\ failed = 0
    /\ quitting = FALSE
    /\ done = FALSE
    /\ exited = FALSE
    /\ initActive = 0
    /\ sd = [i |-> 0, started |-> 0, pc |-> "loop"]
    /\ progressCh = << >>
    /\ waiting = TRUE
    /\ workers = << >>
    /\ nlines = 0

\* p.Run has returned: main returns and the process ends, and every goroutine
\* of the process with it
Stopped == exited

(* --------------------------- startDownloads ---------------------------- *)
\* LoopEnds without the break on the limit
LoopEnds_noLimit(i, started) == i >= NumItems

\* for i := range m.items { if started >= m.parallel { break } ... }: the loop
\* is over at index i with `started` workers launched
LoopEnds(i, started) == i >= NumItems \/ started >= parallel

\* One iteration of the loop of the closure startDownloads returns.  The
\* closure runs in its own goroutine; m is the copy of the model that Init's
\* value receiver holds, so m.activeCount++ goes to initActive, while
\* m.items is the backing array shared with the model Update works on.
startDownloads ==
    /\ ~Stopped
    /\ sd.pc = "loop"
    /\ IF LoopEnds(sd.i, sd.started)
       THEN /\ sd' = [sd EXCEPT !.pc = "ret"]
            /\ UNCHANGED <<workers, initActive>>
       ELSE IF items[sd.i].Status = StatusPending
            THEN /\ workers' = Append(workers, NewWorker(sd.i, "start"))
                 /\ initActive' = initActive + 1
                 /\ sd' = [sd EXCEPT !.i = @ + 1, !.started = @ + 1]
            ELSE /\ sd' = [sd EXCEPT !.i = @ + 1]
                 /\ UNCHANGED <<workers, initActive>>
    /\ UNCHANGED <<items, parallel, activeCount, completed, failed, quitting, done, exited,
                   progressCh, waiting, nlines>>


(* ------------------------------ Download ------------------------------- *)
Workers == 1..Len(workers)

\* progressChan <- msg by goroutine `by` of worker k: blocks while the buffer is full
CanSend == Len(progressCh) < ChanCap

\* IsTerminal that takes Completed alone for the end of an item
IsTerminal_completedOnly(status) == status = StatusCompleted

\* the statuses of the case StatusCompleted / StatusFailed of handleProgress
\* (and of the messages Download returns after)
IsTerminal(status) == status = StatusCompleted \/ status = StatusFailed

\* history of what worker w has put on the channel: `first` is the kind of
\* its first message, `nterm` the number of terminal messages so far
Emit(w, msg, by) ==
    [w EXCEPT !.first = IF @ # "none" THEN @
                        ELSE IF by = "main" /\ msg.Status = StatusDownloading /\ msg.Progress = 0
                        THEN "Started" ELSE "other",
              !.nterm = IF IsTerminal(msg.Status) THEN @ + 1 ELSE @]

\* scanner.Scan of reader r has nothing left to return but false (the task
\* has exited and the reader holds no line): the reader is at end-of-stream
AtEof(w, r) == r.pc = "scan" /\ w.proc = "exited"

\* when the last of the three goroutines of a worker has returned, the
\* variables they captured (title, the pipes) are unreachable
Reap(w) ==
    IF w.pc = "done" /\ AtEof(w, w.stdout) /\ AtEof(w, w.stderr)
    THEN [w EXCEPT !.title = EmptyString, !.tw = {}]
    ELSE w

\* `title` is shared by the three goroutines of a worker without synchronisation:
\* a goroutine that has not written it itself may still read the old value
TitleRead(w, by) == IF by \in w.tw THEN {w.title} ELSE {EmptyString, w.title}

\* progressChan <- ProgressMsg{ID: id, Status: StatusDownloading, Progress: 0}
DownloadStarted(k) ==
    LET w == workers[k]
        msg == ProgressMsg(w.id, StatusDownloading, 0, EmptyString, NilError)
    IN /\ ~Stopped
       /\ w.pc = "start"
       /\ CanSend
       /\ progressCh' = Append(progressCh, msg)
       /\ workers' = [workers EXCEPT ![k] = [Emit(w, msg, "main") EXCEPT !.pc = "setup"]]
       /\ UNCHANGED <<items, parallel, activeCount, completed, failed, quitting, done, exited,
                      initActive, sd, waiting, nlines>>

\* DownloadSetupFailed without its return: the goroutine goes on to cmd.Wait,
\* which fails at once for a task that was not started
DownloadSetupFailed_noReturn(k) ==
    LET w == workers[k]
    IN /\ ~Stopped
       /\ w.pc = "setup"
       /\ CanSend
       /\ LET msg == ProgressMsg(w.id, StatusFailed, 0, EmptyString, ErrSetup)
          IN /\ progressCh' = Append(progressCh, msg)
             /\ workers' = [workers EXCEPT ![k] =
                   [Emit(w, msg, "main") EXCEPT !.pc = "wait", !.proc = "exited",
                                                !.stdout = Reader("scan", OtherLine),
                                                !.stderr = Reader("scan", OtherLine)]]
       /\ UNCHANGED <<items, parallel, activeCount, completed, failed, quitting, done, exited,
                      initActive, sd, waiting, nlines>>

\* cmd.StdoutPipe, cmd.StderrPipe or cmd.Start returns an error: Failed, and return
DownloadSetupFailed(k) ==
    LET w == workers[k]
    IN /\ ~Stopped
       /\ w.pc = "setup"
       /\ CanSend
       /\ LET msg == ProgressMsg(w.id, StatusFailed, 0, EmptyString, ErrSetup)
          IN /\ progressCh' = Append(progressCh, msg)
             /\ workers' = [workers EXCEPT ![k] = [Emit(w, msg, "main") EXCEPT !.pc = "done"]]
       /\ UNCHANGED <<items, parallel, activeCount, completed, failed, quitting, done, exited,
                      initActive, sd, waiting, nlines>>

\* the pipes are created and the task starts: both readers are launched and
\* the goroutine goes on to cmd.Wait
DownloadSetupOk(k) ==
    LET w == workers[k]
    IN /\ ~Stopped
       /\ w.pc = "setup"
       /\ workers' = [workers EXCEPT ![k] =
              [w EXCEPT !.pc = "wait", !.proc = "running",
                        !.stdout = Reader("scan", OtherLine),
                        !.stderr = Reader("scan", OtherLine)]]
       /\ UNCHANGED <<items, parallel, activeCount, completed, failed, quitting, done, exited,
                      initActive, sd, progressCh, waiting, nlines>>

\* the external task exits (cmd.Wait will report how)
TaskExit(k) ==
    LET w == workers[k]
    IN /\ ~Stopped
       /\ w.proc = "running"
       /\ workers' = [workers EXCEPT ![k] = [w EXCEPT !.proc = "exited"]]
       /\ UNCHANGED <<items, parallel, activeCount, completed, failed, quitting, done, exited,
                      initActive, sd, progressCh, waiting, nlines>>

\* cmd.Wait returns once the task has exited (it closes both pipes; it does
\* not wait for the reader goroutines), and the terminal message is sent
DownloadWait(k) ==
    LET w == workers[k]
    IN /\ ~Stopped
       /\ w.pc = "wait"
       /\ w.proc = "exited"
       /\ CanSend
       /\ \E t \in TitleRead(w, "main"), err \in {NilError, ErrDownloadFailed} :
            LET msg == IF err # NilError
                       THEN ProgressMsg(w.id, StatusFailed, 0, t, err)
                       ELSE ProgressMsg(w.id, StatusCompleted, 100, t, NilError)
            IN /\ progressCh' = Append(progressCh, msg)
               /\ workers' = [workers EXCEPT ![k] =
                     Reap([Emit(w, msg, "main") EXCEPT !.pc = "done"])]
       /\ UNCHANGED <<items, parallel, activeCount, completed, failed, quitting, done, exited,
                      initActive, sd, waiting, nlines>>

(* ------------------------- the stdout reader --------------------------- *)
\* the first of the three if statements of the stdout loop, from number `from`
\* on, whose pattern matches the line; "scan" when none does
StdoutPos(line, from) ==
    IF from <= 1 /\ line.dest # EmptyString THEN "dest"
    ELSE IF from <= 2 /\ line.pct >= 0 THEN "download"
    ELSE IF from <= 3 /\ line.extract THEN "extract"
    ELSE "scan"

\* the stdout reader at that statement, holding the line while it has a send to do
NextStdout(line, from) ==
    IF StdoutPos(line, from) = "scan" THEN Reader("scan", OtherLine)
    ELSE Reader(StdoutPos(line, from), line)

\* scanner.Scan returns a line of the running task; the loop body runs up to
\* its first channel send (title is assigned before the first send)
StdoutScan(k) ==
    LET w == workers[k]
    IN /\ ~Stopped
       /\ w.stdout.pc = "scan"
       /\ w.proc = "running"
       /\ MoreLines
       /\ nlines' = nlines + 1
       /\ \E line \in Lines :
            workers' = [workers EXCEPT ![k] =
               [w EXCEPT !.title = IF line.dest # EmptyString THEN ReplaceAll(line.dest) ELSE @,
                         !.tw = IF line.dest # EmptyString THEN @ \cup {"stdout"} ELSE @,
                         !.stdout = NextStdout(line, 1)]]
       /\ UNCHANGED <<items, parallel, activeCount, completed, failed, quitting, done, exited,
                      initActive, sd, progressCh, waiting>>

\* the message the stdout loop sends at position pc for its line
StdoutMsg(w, t) ==
    IF w.stdout.pc = "dest"
    THEN ProgressMsg(w.id, StatusDownloading, 0, ReplaceAll(w.stdout.line.dest), NilError)
    ELSE IF w.stdout.pc = "download"
    THEN ProgressMsg(w.id, StatusDownloading, w.stdout.line.pct, t, NilError)
    ELSE ProgressMsg(w.id, StatusConverting, 100, t, NilError)

\* the number of the if statement that follows the one at position pc
StdoutAfter(pc) == IF pc = "dest" THEN 2 ELSE IF pc = "download" THEN 3 ELSE 4

\* one progressChan <- ... of the stdout loop, then on to the next send or to Scan
StdoutSend(k) ==
    LET w == workers[k]
        from == StdoutAfter(w.stdout.pc)
    IN /\ ~Stopped
       /\ w.stdout.pc \in {"dest", "download", "extract"}
       /\ CanSend
       /\ \E t \in TitleRead(w, "stdout") :
            LET msg == StdoutMsg(w, t)
            IN /\ progressCh' = Append(progressCh, msg)
               /\ workers' = [workers EXCEPT ![k] =
                     Reap([Emit(w, msg, "stdout") EXCEPT
                              !.stdout = NextStdout(w.stdout.line, from)])]
       /\ UNCHANGED <<items, parallel, activeCount, completed, failed, quitting, done, exited,
                      initActive, sd, waiting, nlines>>

(* ------------------------- the stderr reader --------------------------- *)
\* the statement of the stderr loop that sends for the line: the if on
\* downloadRe; "scan" when the line has no percentage
StderrPos(line) == IF line.pct >= 0 THEN "download" ELSE "scan"

\* the stderr reader at that statement
NextStderr(line) ==
    IF StderrPos(line) = "scan" THEN Reader("scan", OtherLine)
    ELSE Reader(StderrPos(line), line)

\* scanner.Scan returns a line: a destination only sets title, a percentage
\* is sent; the extraction marker is not looked for on this stream
StderrScan(k) ==
    LET w == workers[k]
    IN /\ ~Stopped
       /\ w.stderr.pc = "scan"
       /\ w.proc = "running"
       /\ MoreLines
       /\ nlines' = nlines + 1
       /\ \E line \in Lines :
            workers' = [workers EXCEPT ![k] =
               [w EXCEPT !.title = IF line.dest # EmptyString THEN ReplaceAll(line.dest) ELSE @,
                         !.tw = IF line.dest # EmptyString THEN @ \cup {"stderr"} ELSE @,
                         !.stderr = NextStderr(line)]]
       /\ UNCHANGED <<items, parallel, activeCount, completed, failed, quitting, done, exited,
                      initActive, sd, progressCh, waiting>>

\* the progressChan <- ... of the stderr loop
StderrSend(k) ==
    LET w == workers[k]
    IN /\ ~Stopped
       /\ w.stderr.pc = "download"
       /\ CanSend
       /\ \E t \in TitleRead(w, "stderr") :
            LET msg == ProgressMsg(w.id, StatusDownloading, w.stderr.line.pct, t, NilError)
            IN /\ progressCh' = Append(progressCh, msg)
               /\ workers' = [workers EXCEPT ![k] =
                     Reap([Emit(w, msg, "stderr") EXCEPT !.stderr = Reader("scan", OtherLine)])]
       /\ UNCHANGED <<items, parallel, activeCount, completed, failed, quitting, done, exited,
                      initActive, sd, waiting, nlines>>

(* --------------------------- the aggregator ---------------------------- *)
\* waitForProgress: the message the command blocked on the channel receives
\* and returns to the runtime, which hands it to Update.  One such command is
\* outstanding while `waiting` holds.
waitForProgress == Head(progressCh)

\* Update, case tea.KeyMsg "ctrl+c" / "q": quitting, and the command tea.Quit
\* is returned to the runtime.  Spec is the run in which no key is pressed:
\* the action is a disjunct of NextQuit, not of Next.
UpdateKeyMsg ==
    /\ ~Stopped
    /\ quitting' = TRUE
    /\ UNCHANGED <<items, parallel, activeCount, completed, failed, done, exited,
                   initActive, sd, progressCh, waiting, workers, nlines>>

\* The runtime runs the command tea.Quit like every command, in a goroutine
\* of its own, and leaves its loop when the tea.QuitMsg that the command
\* returns comes up in the loop: p.Run returns (and main after it).  Until
\* then the loop goes on calling Update with the messages it receives.
RunReturns ==
    /\ ~Stopped
    /\ quitting
    /\ exited' = TRUE
    /\ UNCHANGED <<items, parallel, activeCount, completed, failed, quitting, done,
                   initActive, sd, progressCh, waiting, workers, nlines>>

\* item.Status = msg.Status; item.Progress = msg.Progress; Title and Error
\* only when the message carries one
ApplyMsg(item, msg) ==
    [Status |-> msg.Status,
     Progress |-> msg.Progress,
     Title |-> IF msg.Title # EmptyString THEN msg.Title ELSE item.Title,
     Error |-> IF msg.Error # NilError THEN msg.Error ELSE item.Error]

\* NextPending scanning the table from the end
NextPending_last(its, ac) ==
    LET pend == {i \in DOMAIN its : its[i].Status = StatusPending}
    IN IF pend # {} /\ ac < parallel
       THEN CHOOSE i \in pend : \A j \in pend : i >= j
       ELSE -1

\* for i := range m.items { if Status == Pending && activeCount < parallel {...; break} }:
\* the index the loop launches a worker for, -1 when it launches none
NextPending(its, ac) ==
    LET pend == {i \in DOMAIN its : its[i].Status = StatusPending}
    IN IF pend # {} /\ ac < parallel
       THEN CHOOSE i \in pend : \A j \in pend : i <= j
       ELSE -1

\* AllDone that also ends the run as soon as one item has failed
AllDone_abortOnFailure(c, f) == f >= 1 \/ c + f = NumItems

\* AllDone with the failed items left out of the sum
AllDone_completedOnly(c, f) == c = NumItems

\* if m.completed+m.failed == len(m.items)
AllDone(c, f) == c + f = NumItems

\* OutOfRange that lets the index len(m.items) through
OutOfRange_offByOne(id) == id < 0 \/ id > NumItems

\* if msg.ID < 0 || msg.ID >= len(m.items)
OutOfRange(id) == id < 0 \/ id >= NumItems

\* Update, case downloader.ProgressMsg: handleProgress(msg), for the message
\* the outstanding waitForProgress command delivers
handleProgress ==
    /\ ~Stopped
    /\ waiting
    /\ progressCh # << >>
    /\ progressCh' = Tail(progressCh)
    /\ LET msg == waitForProgress
       IN IF OutOfRange(msg.ID)
          THEN /\ waiting' = TRUE
               /\ UNCHANGED <<items, activeCount, completed, failed, done, exited, workers>>
          ELSE LET its == [items EXCEPT ![msg.ID] = ApplyMsg(@, msg)]
                   ac == activeCount - 1
                   nxt == NextPending(its, ac)
                   c == IF msg.Status = StatusCompleted THEN completed + 1 ELSE completed
                   f == IF msg.Status = StatusCompleted THEN failed ELSE failed + 1
               IN /\ items' = its
                  /\ IF IsTerminal(msg.Status)
                     THEN /\ completed' = c
                          /\ failed' = f
                          /\ activeCount' = IF nxt >= 0 THEN ac + 1 ELSE ac
                          /\ workers' = IF nxt >= 0 THEN Append(workers, NewWorker(nxt, "next"))
                                        ELSE workers
                          /\ done' = AllDone(c, f)
                          /\ exited' = AllDone(c, f)
                          /\ waiting' = ~AllDone(c, f)
                     ELSE /\ waiting' = TRUE
                          /\ UNCHANGED <<activeCount, completed, failed, done, exited, workers>>
    /\ UNCHANGED <<parallel, quitting, initActive, sd, nlines>>

Next ==
    \/ startDownloads
    \/ handleProgress
    \/ \E k \in Workers : DownloadStarted(k)
    \/ \E k \in Workers : DownloadSetupFailed(k)
    \/ \E k \in Workers : DownloadSetupOk(k)
    \/ \E k \in Workers : TaskExit(k)
    \/ \E k \in Workers : DownloadWait(k)
    \/ \E k \in Workers : StdoutScan(k)
    \/ \E k \in Workers : StdoutSend(k)
    \/ \E k \in Workers : StderrScan(k)
    \/ \E k \in Workers : StderrSend(k)

Spec == Init /\ [][Next]_vars

\* Spec with the scheduling the program runs under: a goroutine that can take
\* a step is scheduled, an external task exits, a command that has a message
\* delivers it.  (No step of Next can be repeated forever, so this is the same
\* as fairness for every single goroutine.)
SpecFair == Spec /\ WF_vars(Next)

\* The aggregator by itself: Update is called with the progress messages of
\* a queue that holds any of the three messages of Download's main goroutine
\* (Started, Completed, Failed), for any index from -1 to len(items), in any
\* order.  The queue counts in the size of the run like the output lines do
\* in Spec, once per message.
Deliverable(n) ==
    UNION {{ProgressMsg(id, StatusDownloading, 0, EmptyString, NilError),
            ProgressMsg(id, StatusCompleted, 100, EmptyString, NilError),
            ProgressMsg(id, StatusFailed, 0, EmptyString, ErrDownloadFailed)} : id \in (-1)..n}

InitUpdate ==
    /\ \E n \in 1..(MaxSize - 3) :
          /\ items = [i \in 0..(n - 1) |-> Item]
          /\ \E p \in 1..((MaxSize - 1 - n) \div 2) :
                /\ parallel = p
                /\ progressCh \in UNION {[1..l -> Deliverable(n)] : l \in 1..(MaxSize - n - 2 * p)}
    /\ activeCount = 0
    /\ completed = 0
    /\ failed = 0
    /\ quitting = FALSE
    /\ done = FALSE
    /\ exited = FALSE
    /\ initActive = 0
    /\ sd = [i |-> 0, started |-> 0, pc |-> "loop"]
    /\ waiting = TRUE
    /\ workers = << >>
    /\ nlines = 0

NextUpdate == handleProgress

SpecUpdate == InitUpdate /\ [][NextUpdate]_vars

\* the runs in which the user may press q or ctrl+c
NextQuit ==
    \/ Next
    \/ UpdateKeyMsg
    \/ RunReturns

SpecQuit == Init /\ [][NextQuit]_vars

(* ======================= properties of the program ===================== *)
IsActive(status) == status = StatusDownloading \/ status = StatusConverting

\* the number of items the table shows as Running or Converting
NumActive == Cardinality({i \in DOMAIN items : IsActive(items[i].Status)})

Min(a, b) == IF a <= b THEN a ELSE b

\* a reader goroutine that holds a line whose message it has not sent yet
Holding(r) == r.pc \in {"dest", "download", "extract"}

\* the edges of the item state machine
ValidStep(a, b) ==
    <<a, b>> \in {<<StatusPending, StatusDownloading>>,
                  <<StatusDownloading, StatusConverting>>,
                  <<StatusDownloading, StatusCompleted>>,
                  <<StatusConverting, StatusCompleted>>,
                  <<StatusDownloading, StatusFailed>>,
                  <<StatusConverting, StatusFailed>>}

\* C1: every change of an item's status in the table is an edge of the state
\* machine Pending -> Running -> (Converting ->) Completed, Running/Converting
\* -> Failed; the machine has no cycle, so no status is entered again and no
\* item is Completed or Failed without having been Running.
C1_StatusPath ==
    [][\A i \in DOMAIN items :
          items'[i].Status # items[i].Status
             => ValidStep(items[i].Status, items'[i].Status)]_vars

\* C2: at most `parallel` items are Running or Converting in the table.
C2_AtMostParallel == NumActive <= parallel

\* C3: the activeCount of the model Update works on equals the number of
\* items that are Running or Converting.
C3_ActiveCountExact == activeCount = NumActive

\* C4: when the aggregator has signalled end-of-run (done, tea.Quit), every
\* item is Completed or Failed.
C4_DoneAllTerminal == done => \A i \in DOMAIN items : IsTerminal(items[i].Status)

\* C5: completed + failed never decreases and never exceeds the number of
\* items; done is set exactly when the sum equals the number of items, stays
\* set (one signal), and from then on no receive command is outstanding.
C5_Counters ==
    /\ [](/\ completed + failed <= NumItems
          /\ done <=> (completed + failed = NumItems)
          /\ done => ~waiting)
    /\ [][/\ completed' + failed' >= completed + failed
          /\ done => done']_vars

\* a run that ended with one item completed and another failed
C5_Witness == done /\ completed >= 1 /\ failed >= 1

\* C6: once a worker has sent its terminal message, neither of its readers
\* still holds a message to send (both have drained their stream).
C6_TerminalAfterDrain ==
    \A k \in Workers :
        workers[k].pc = "done" => ~Holding(workers[k].stdout) /\ ~Holding(workers[k].stderr)

\* C7: admission is FIFO: when a worker is launched for item i, every item
\* with a smaller index has had a worker launched before.
\* With P = 1 and two items, the step that applies the terminal event of
\* item 0 launches the worker of item 1.
C7_Fifo ==
    /\ [](\A k \in Workers :
            \A j \in 0..(workers[k].id - 1) : \E h \in 1..(k - 1) : workers[h].id = j)
    /\ [][parallel = 1 /\ NumItems = 2 /\ completed + failed = 0
             /\ completed' + failed' = 1
          => /\ Len(workers) = 1
             /\ workers[1].id = 0
             /\ workers' = Append(workers, NewWorker(1, "next"))]_vars

\* with P = 1 and three items, the last item has been admitted as a replacement
C7_Witness ==
    /\ parallel = 1
    /\ NumItems = 3
    /\ \E k \in Workers : workers[k].id = 2 /\ workers[k].by = "next"

\* C8: startDownloads launches exactly the first min(P, N) items, and an
\* item with index >= P has no worker and is Pending as long as no terminal
\* event has been observed.
C8_StartAdmission ==
    /\ sd.pc = "ret"
         => {workers[k].id : k \in {h \in Workers : workers[h].by = "start"}}
               = 0..(Min(parallel, NumItems) - 1)
    /\ \A i \in DOMAIN items :
         i >= parallel /\ completed + failed = 0
            => /\ items[i].Status = StatusPending
               /\ \A k \in Workers : workers[k].id # i

\* C9: the first message of a worker is Started, it sends at most one
\* terminal message and has sent exactly one when it returns, and after a
\* pipe or start failure it has returned without starting a reader.
C9_WorkerProtocol ==
    \A k \in Workers :
        LET w == workers[k]
        IN /\ w.first \in {"none", "Started"}
           /\ (w.first = "none") <=> (w.pc = "start")
           /\ w.nterm <= 1
           /\ (w.nterm = 1) <=> (w.pc = "done")
           /\ w.proc = "none" => w.stdout.pc = "idle" /\ w.stderr.pc = "idle"

\* one worker has returned after a setup failure and another after its task exited
C9_Witness ==
    /\ \E k \in Workers : workers[k].pc = "done" /\ workers[k].proc = "none"
    /\ \E k \in Workers : workers[k].pc = "done" /\ workers[k].proc = "exited"

\* C10: applying Failed to an item keeps its progress and stores an error.
C10_FailedKeepsProgress ==
    [][\A i \in DOMAIN items :
          items'[i].Status = StatusFailed /\ items[i].Status # StatusFailed
             => /\ items'[i].Progress = items[i].Progress
                /\ items'[i].Error # NilError]_vars

\* the step is a call of handleProgress: the only step that takes a message
\* off the channel
Handled == Len(progressCh') < Len(progressCh)

\* C11: once an item is Completed or Failed in the table, no later event
\* changes its status.
C11_TerminalStays ==
    [][\A i \in DOMAIN items :
          items[i].Status \in {StatusCompleted, StatusFailed}
             => items'[i].Status = items[i].Status]_vars

\* C12: applying a terminal event to an item that the table already shows in
\* that terminal status (the same event, delivered a second time) changes
\* none of activeCount, completed, failed, and activeCount is never negative.
C12_Idempotent ==
    [][/\ Handled
       /\ Head(progressCh).Status \in {StatusCompleted, StatusFailed}
       /\ items[Head(progressCh).ID].Status = Head(progressCh).Status
       => /\ completed' = completed
          /\ failed' = failed
          /\ activeCount' = activeCount
          /\ activeCount' >= 0]_vars

\* the message a call of handleProgress is about to apply is for an item of the table
InRange == Head(progressCh).ID \in DOMAIN items

\* C13: applying Failed for item i leaves every other item of the table as it
\* is and counts the failure; a replacement is launched when an item is
\* Pending; the run ends with that step exactly when completed + failed has
\* reached the number of items.
C13_FailureIsLocal ==
    [][Handled /\ InRange /\ Head(progressCh).Status = StatusFailed
       => /\ \A j \in DOMAIN items : j # Head(progressCh).ID => items'[j] = items[j]
          /\ failed' = failed + 1
          /\ completed' = completed
          /\ (\E j \in DOMAIN items : items'[j].Status = StatusPending)
                => Len(workers') = Len(workers) + 1
          /\ done' <=> (completed' + failed' = NumItems)
          /\ exited' <=> (completed' + failed' = NumItems)]_vars

\* an item has failed while a sibling goes on downloading, a replacement
\* has been launched and the run has not ended
C13_Witness ==
    /\ ~done
    /\ \E i, j \in DOMAIN items :
          /\ items[i].Status = StatusFailed
          /\ items[j].Status = StatusDownloading
    /\ \E k \in Workers : workers[k].by = "next"

\* C14: once Update has handled q or ctrl+c (quitting is set, and tea.Quit
\* was returned in that same step whatever the workers in flight are doing)
\* no further worker is launched.
C14_NoLaunchAfterAbort ==
    [][quitting => workers' = workers]_vars

\* C15: under fair scheduling the end-of-run signal is eventually issued;
\* until then the aggregator has a receive outstanding (so the senders on the
\* channel are never blocked for good, whatever its capacity); and every item
\* eventually leaves Pending.
C15_Terminates ==
    /\ <>done
    /\ [](~done => waiting)
    /\ <>(\A i \in DOMAIN items : items[i].Status # StatusPending)

\* C16: over a run, no two workers are launched for the same item.
C16_OneWorkerPerItem ==
    \A k, h \in Workers : k # h => workers[k].id # workers[h].id

\* C17: a call of handleProgress that applies Completed or Failed for an item
\* of the table launches exactly one worker, for an item the table shows as
\* Pending, when there is such an item, and none when there is not; a call
\* that applies any other message launches none.
C17_OneReplacement ==
    [][Handled /\ InRange
       => IF Head(progressCh).Status \in {StatusCompleted, StatusFailed}
             /\ \E j \in DOMAIN items : items'[j].Status = StatusPending
          THEN \E j \in DOMAIN items :
                  /\ items'[j].Status = StatusPending
                  /\ workers' = Append(workers, NewWorker(j, "next"))
          ELSE workers' = workers]_vars

\* the run has ended: replacements were launched while items were Pending,
\* and the last terminal events found none
C17_Witness ==
    /\ done
    /\ \E k \in Workers : workers[k].by = "next"
    /\ \A i \in DOMAIN items : items[i].Status # StatusPending

\* C18: a call of handleProgress with a message whose index is negative or
\* >= len(items) changes nothing of the table, the three counters, done and
\* the workers, does not end the run, and leaves a receive outstanding.
C18_OutOfRangeDropped ==
    [][Handled /\ ~InRange
       => /\ UNCHANGED <<items, activeCount, completed, failed, done, exited, workers>>
          /\ waiting']_vars

\* every message of the queue has been handled and none has left a trace:
\* each of them (there was at least one) had an index out of range
C18_Witness ==
    /\ progressCh = << >>
    /\ \A i \in DOMAIN items : items[i] = Item
    /\ completed + failed = 0
    /\ workers = << >>
    /\ waiting

\* C19: an item of the table whose Error is set has status Failed.
C19_ErrorOnlyWhenFailed ==
    \A i \in DOMAIN items : items[i].Error # NilError => items[i].Status = StatusFailed

\* the sends the stdout reader does for a line, in order, from if statement `from` on
RECURSIVE StdoutSends(_, _)
StdoutSends(line, from) ==
    IF StdoutPos(line, from) = "scan" THEN << >>
    ELSE <<StdoutPos(line, from)>> \o StdoutSends(line, StdoutAfter(StdoutPos(line, from)))

\* the sends the stderr reader does for a line
StderrSends(line) == IF StderrPos(line) = "scan" THEN << >> ELSE <<StderrPos(line)>>

\* the events the classification of a line yields: TitleDiscovered ("dest")
\* for a destination, ProgressUpdate ("download") for a percentage,
\* PhaseChanged(Converting) ("extract") for the extraction marker
Classified(line) ==
    (IF line.dest # EmptyString THEN <<"dest">> ELSE << >>)
       \o (IF line.pct >= 0 THEN <<"download">> ELSE << >>)
       \o (IF line.extract THEN <<"extract">> ELSE << >>)

\* C20: every line a running task may write is classified the same way on
\* either stream: the stdout reader and the stderr reader of its worker both
\* send the events of its classification, and none for a line that matches
\* no pattern.
C20_SameOnBothStreams ==
    \A k \in Workers :
        workers[k].proc = "running"
           => \A line \in Lines :
                 /\ StdoutSends(line, 1) = Classified(line)
                 /\ StderrSends(line) = Classified(line)

\* the workers launched so far that have not sent their terminal message
InFlight == {k \in Workers : workers[k].pc # "done"}

\* C21: at most `parallel` launched workers have not yet sent their terminal
\* message (at most `parallel` external tasks are in flight).
C21_InFlightAtMostParallel == Cardinality(InFlight) <= parallel

\* with a limit of 2, two workers are in flight, two workers have been
\* launched for one item, and activeCount is not the number in flight
C21_Witness ==
    /\ parallel = 2
    /\ Cardinality(InFlight) = parallel
    /\ \E k, h \in Workers : k # h /\ workers[k].id = workers[h].id
    /\ activeCount # Cardinality(InFlight)

====
